---- MODULE Spec2Model ----
(***************************************************************************)
(* unison-fsmonitor (src/main.rs): the bridge between the line protocol of *)
(* a synchronisation host (stdin/stdout) and a recursive filesystem watch  *)
(* service.  Strings are sequences of Unicode scalar values, so that       *)
(* tokenisation, percent coding over the UTF-8 bytes and path-component    *)
(* matching are computed the way the program computes them.                *)
(***************************************************************************)
EXTENDS Integers, Sequences, FiniteSets, TLC

(***************************************************************************)
(* Bounds of the model.                                                    *)
(***************************************************************************)
MaxLines == 5     \* lines the main thread receives in one run
MaxEvents == 1    \* raw events the watch service produces in one run
MaxOut == 4       \* a receive timeout is taken only below this many output lines
MaxLen == 3       \* length of the argument strings given to the codec

(***************************************************************************)
(* Characters.  A character is its Unicode scalar value, a string the      *)
(* sequence of its characters; the bytes of a string are its UTF-8 form.   *)
(***************************************************************************)
\* printable ASCII, 0x20 .. 0x7E, as written in this module; Printable[i] has
\* code 31 + i (the double quote, parentheses, asterisk, backslash and
\* backtick are spelled out)
Printable ==
  << " ", "!", "QUOT", "#", "$", "%", "&", "'", "LPAR", "RPAR", "STAR", "+", ",", "-", ".", "/",
     "0", "1", "2", "3", "4", "5", "6", "7", "8", "9", ":", ";", "<", "=", ">", "?",
     "@", "A", "B", "C", "D", "E", "F", "G", "H", "I", "J", "K", "L", "M", "N", "O",
     "P", "Q", "R", "S", "T", "U", "V", "W", "X", "Y", "Z", "[", "BSL", "]", "^", "_",
     "BTICK", "a", "b", "c", "d", "e", "f", "g", "h", "i", "j", "k", "l", "m", "n", "o",
     "p", "q", "r", "s", "t", "u", "v", "w", "x", "y", "z", "{", "|", "}", "~" >>

\* the character a literal of this module stands for
Ord(c) == 31 + (CHOOSE i \in 1..Len(Printable) : Printable[i] = c)

\* the string a sequence of literals stands for
RECURSIVE Str(_)
Str(cs) == IF cs = <<>> THEN <<>> ELSE <<Ord(Head(cs))>> \o Str(Tail(cs))

TAB == 9
NL == 10
SP == Ord(" ")
PCT == Ord("%")
SLASH == Ord("/")
DOT == Ord(".")
\* U+FFFD, what from_utf8_lossy substitutes for an invalid sequence
REPLACEMENT == 65533
\* the characters that have several bytes, used in the arguments of the model
E_ACUTE == 233    \* U+00E9

\* char::encode_utf8
Utf8(c) ==
  IF c < 128 THEN <<c>>
  ELSE IF c < 2048 THEN <<192 + (c \div 64), 128 + (c % 64)>>
  ELSE IF c < 65536
       THEN <<224 + (c \div 4096), 128 + ((c \div 64) % 64), 128 + (c % 64)>>
       ELSE <<240 + (c \div 262144), 128 + ((c \div 4096) % 64),
              128 + ((c \div 64) % 64), 128 + (c % 64)>>

\* str::as_bytes
RECURSIVE Bytes(_)
Bytes(s) == IF s = <<>> THEN <<>> ELSE Utf8(Head(s)) \o Bytes(Tail(s))

\* the upper-case hexadecimal digit of a value 0 .. 15
HexDigit(n) == IF n < 10 THEN 48 + n ELSE 55 + n

\* char::to_digit(16): 0-9, A-F, a-f
IsHex(b) == (b >= 48 /\ b <= 57) \/ (b >= 65 /\ b <= 70) \/ (b >= 97 /\ b <= 102)
HexVal(b) == IF b <= 57 THEN b - 48 ELSE IF b <= 70 THEN b - 55 ELSE b - 87

\* String::from_utf8_lossy walks the bytes by index; a byte 0x80 .. 0xBF
\* continues a sequence
IsCont(bs, i) == i <= Len(bs) /\ bs[i] >= 128 /\ bs[i] <= 191

\* the range of the byte that follows the lead byte at i of a sequence of
\* three or four bytes (no overlong form, no surrogate, nothing above U+10FFFF)
SecondOk(bs, i) ==
  /\ i + 1 <= Len(bs)
  /\ bs[i + 1] >= (IF bs[i] = 224 THEN 160 ELSE IF bs[i] = 240 THEN 144 ELSE 128)
  /\ bs[i + 1] <= (IF bs[i] = 237 THEN 159 ELSE IF bs[i] = 244 THEN 143 ELSE 191)

\* the characters of the bytes from index i on: every maximal invalid part
\* becomes one U+FFFD
RECURSIVE Utf8Lossy(_, _)
Utf8Lossy(bs, i) ==
  IF i > Len(bs) THEN <<>>
  ELSE IF bs[i] < 128 THEN <<bs[i]>> \o Utf8Lossy(bs, i + 1)
  ELSE IF bs[i] >= 194 /\ bs[i] <= 223
       THEN IF IsCont(bs, i + 1)
            THEN <<(bs[i] - 192) * 64 + (bs[i + 1] - 128)>> \o Utf8Lossy(bs, i + 2)
            ELSE <<REPLACEMENT>> \o Utf8Lossy(bs, i + 1)
  ELSE IF bs[i] >= 224 /\ bs[i] <= 239
       THEN IF ~SecondOk(bs, i) THEN <<REPLACEMENT>> \o Utf8Lossy(bs, i + 1)
            ELSE IF ~IsCont(bs, i + 2) THEN <<REPLACEMENT>> \o Utf8Lossy(bs, i + 2)
            ELSE <<(bs[i] - 224) * 4096 + (bs[i + 1] - 128) * 64 + (bs[i + 2] - 128)>>
                 \o Utf8Lossy(bs, i + 3)
  ELSE IF bs[i] >= 240 /\ bs[i] <= 244
       THEN IF ~SecondOk(bs, i) THEN <<REPLACEMENT>> \o Utf8Lossy(bs, i + 1)
            ELSE IF ~IsCont(bs, i + 2) THEN <<REPLACEMENT>> \o Utf8Lossy(bs, i + 2)
            ELSE IF ~IsCont(bs, i + 3) THEN <<REPLACEMENT>> \o Utf8Lossy(bs, i + 3)
            ELSE <<(bs[i] - 240) * 262144 + (bs[i + 1] - 128) * 4096
                     + (bs[i + 2] - 128) * 64 + (bs[i + 3] - 128)>>
                 \o Utf8Lossy(bs, i + 4)
  ELSE <<REPLACEMENT>> \o Utf8Lossy(bs, i + 1)

from_utf8_lossy(bs) == Utf8Lossy(bs, 1)

(***************************************************************************)
(* Codec.                                                                  *)
(***************************************************************************)
\* SIMPLE_ENCODE_SET: every byte below 0x20 or above 0x7E
InSimpleEncodeSet(b) == b < 32 \/ b > 126

EncodeByte(b) ==
  IF InSimpleEncodeSet(b)
  THEN <<PCT, HexDigit(b \div 16), HexDigit(b % 16)>>
  ELSE <<b>>

RECURSIVE EncodeBytes(_)
EncodeBytes(bs) ==
  IF bs = <<>> THEN <<>> ELSE EncodeByte(Head(bs)) \o EncodeBytes(Tail(bs))

\* utf8_percent_encode works on the bytes of the character
EncodeChar(c) == EncodeBytes(Utf8(c))

RECURSIVE encode(_)
encode(s) == IF s = <<>> THEN <<>> ELSE EncodeChar(Head(s)) \o encode(Tail(s))

\* percent_decode, from index i on: a percent sign and two hexadecimal digits
\* give one byte, every other byte stands for itself
RECURSIVE PercentDecode(_, _)
PercentDecode(bs, i) ==
  IF i > Len(bs) THEN <<>>
  ELSE IF bs[i] = PCT /\ i + 2 <= Len(bs) /\ IsHex(bs[i + 1]) /\ IsHex(bs[i + 2])
       THEN <<16 * HexVal(bs[i + 1]) + HexVal(bs[i + 2])>> \o PercentDecode(bs, i + 3)
       ELSE <<bs[i]>> \o PercentDecode(bs, i + 1)

percent_decode(bs) == PercentDecode(bs, 1)

\* percent_decode(s.as_bytes()).decode_utf8_lossy()
\* (the bytes and the decoded bytes are each bound once)
decode(s) ==
  CHOOSE out \in {from_utf8_lossy(decoded) :
                    decoded \in {percent_decode(bs) : bs \in {Bytes(s)}}} : TRUE

RECURSIVE SendArgs(_)
SendArgs(args) ==
  IF args = <<>> THEN <<>> ELSE <<SP>> \o encode(Head(args)) \o SendArgs(Tail(args))

\* the text println! writes, without its line terminator
send_cmd(cmd, args) == cmd \o SendArgs(args)

\* char::is_whitespace, the characters with the property White_Space:
\* U+0009 .. U+000D, U+0020, U+0085, U+00A0, U+1680, U+2000 .. U+200A,
\* U+2028, U+2029, U+202F, U+205F, U+3000
Whitespace ==
  (9..13) \cup {32, 133, 160, 5760} \cup (8192..8202) \cup {8232, 8233, 8239, 8287, 12288}

RECURSIVE Split(_, _, _, _)
Split(s, seps, cur, acc) ==
  IF s = <<>> THEN (IF cur = <<>> THEN acc ELSE Append(acc, cur))
  ELSE IF Head(s) \in seps
       THEN Split(Tail(s), seps, <<>>, IF cur = <<>> THEN acc ELSE Append(acc, cur))
       ELSE Split(Tail(s), seps, Append(cur, Head(s)), acc)

split_whitespace(s) == Split(s, Whitespace, <<>>, <<>>)

parse_input(input) ==
  LET words == split_whitespace(input) IN
  [cmd |-> IF words = <<>> THEN <<>> ELSE words[1],
   args |-> [i \in 1..(Len(words) - 1) |-> decode(words[i + 1])]]

(***************************************************************************)
(* Paths: std::path::Path compares and strips by components.               *)
(***************************************************************************)
\* Path::components: the root, then the non-empty segments; a "." segment
\* is kept only at the start of a relative path
RECURSIVE NormalSegs(_, _)
NormalSegs(raw, keepCurDir) ==
  IF raw = <<>> THEN <<>>
  ELSE (IF Head(raw) = <<DOT>> /\ ~keepCurDir THEN <<>> ELSE <<Head(raw)>>)
       \o NormalSegs(Tail(raw), FALSE)

Components(p) ==
  LET isAbs == p # <<>> /\ p[1] = SLASH
  IN [abs |-> isAbs, segs |-> NormalSegs(Split(p, {SLASH}, <<>>, <<>>), ~isAbs)]

\* components as one sequence, Component::RootDir first if there is one
\* (written as the separator, which no segment holds)
RootDir == <<SLASH>>
ComponentList(c) == (IF c.abs THEN <<RootDir>> ELSE <<>>) \o c.segs

IsPrefix(s, t) == Len(s) <= Len(t) /\ SubSeq(t, 1, Len(s)) = s

\* a plain string-prefix test, what a byte-wise comparison would compute
StrStartsWith(file_path, base) == IsPrefix(base, file_path)

\* Path::starts_with(base): base's components are a prefix of the path's
starts_with(file_path, base) ==
  IsPrefix(ComponentList(Components(base)), ComponentList(Components(file_path)))

RECURSIVE JoinWith(_, _)
JoinWith(ws, sep) ==
  IF ws = <<>> THEN <<>>
  ELSE IF Len(ws) = 1 THEN ws[1]
  ELSE ws[1] \o <<sep>> \o JoinWith(Tail(ws), sep)

\* the text between the separators, empty segments included
RECURSIVE RawSegs(_, _)
RawSegs(p, cur) ==
  IF p = <<>> THEN <<cur>>
  ELSE IF Head(p) = SLASH THEN <<cur>> \o RawSegs(Tail(p), <<>>)
  ELSE RawSegs(Tail(p), Append(cur, Head(p)))

\* a segment that is no component: empty, or "."
NoComponent(seg) == seg = <<>> \/ seg = <<DOT>>

\* Components::trim_left and trim_right: segments that are no components are
\* dropped at the front, and at the back beyond the first keep segments
RECURSIVE TrimLeft(_)
TrimLeft(raw) ==
  IF raw # <<>> /\ NoComponent(Head(raw)) THEN TrimLeft(Tail(raw)) ELSE raw

\* (n is the number of segments still kept)
RECURSIVE TrimRightTo(_, _, _)
TrimRightTo(raw, keep, n) ==
  IF n > keep /\ NoComponent(raw[n]) THEN TrimRightTo(raw, keep, n - 1)
  ELSE SubSeq(raw, 1, n)

TrimRight(raw, keep) == TrimRightTo(raw, keep, Len(raw))

\* the raw segments that follow the n-th component
RECURSIVE AfterComponents(_, _, _)
AfterComponents(raw, n, first) ==
  IF n = 0 THEN raw
  ELSE IF NoComponent(Head(raw)) /\ ~(first /\ Head(raw) = <<DOT>>)
       THEN AfterComponents(Tail(raw), n, FALSE)
       ELSE AfterComponents(Tail(raw), n - 1, FALSE)

\* the text of the path f (raw holds what its separators separate, the
\* first of it empty when f has a root) that follows base's components b
\* (Components::as_path), without leading and trailing segments that are no
\* components; nothing is cut off the front when base has no component
StripComponents(f, b, raw) ==
  IF ~IsPrefix(ComponentList(b), ComponentList(f)) THEN [ok |-> FALSE, rel |-> <<>>]
  ELSE IF ComponentList(b) = <<>>
       THEN [ok |-> TRUE,
             rel |-> (IF f.abs THEN <<SLASH>> ELSE <<>>)
                     \o JoinWith(TrimRight(IF f.abs THEN Tail(raw) ELSE raw,
                                           IF f.segs # <<>> /\ f.segs[1] = <<DOT>>
                                           THEN 1 ELSE 0), SLASH)]
       ELSE [ok |-> TRUE,
             rel |-> JoinWith(TrimRight(TrimLeft(
                       AfterComponents(IF f.abs THEN Tail(raw) ELSE raw,
                                       Len(b.segs), ~f.abs)), 0), SLASH)]

\* file_path.strip_prefix(base) and to_string_lossy: StripPrefixError when
\* base's components are no prefix of the path's
\* (the components of both paths are each bound once)
strip_prefix(file_path, base) ==
  CHOOSE out \in {StripComponents(f, b, raw) :
                    f \in {Components(file_path)}, b \in {Components(base)},
                    raw \in {RawSegs(file_path, <<>>)}} : TRUE

(***************************************************************************)
(* The words of the protocol and the lines the host sends in the model.    *)
(***************************************************************************)
W_VERSION == Str(<<"V", "E", "R", "S", "I", "O", "N">>)
W_START == Str(<<"S", "T", "A", "R", "T">>)
W_DIR == Str(<<"D", "I", "R">>)
W_LINK == Str(<<"L", "I", "N", "K">>)
W_DONE == Str(<<"D", "O", "N", "E">>)
W_WAIT == Str(<<"W", "A", "I", "T">>)
W_CHANGES == Str(<<"C", "H", "A", "N", "G", "E", "S">>)
W_RESET == Str(<<"R", "E", "S", "E", "T">>)
W_DEBUG == Str(<<"D", "E", "B", "U", "G">>)
W_OK == Str(<<"O", "K">>)
W_RECURSIVE == Str(<<"R", "E", "C", "U", "R", "S", "I", "V", "E">>)
W_ERROR == Str(<<"E", "R", "R", "O", "R">>)
W_Unexpected == Str(<<"U", "n", "e", "x", "p", "e", "c", "t", "e", "d">>)
W_root == Str(<<"r", "o", "o", "t">>)
W_cmdColon == Str(<<"c", "m", "d", ":">>)

ID_A == Str(<<"a">>)
ID_B == Str(<<"b">>)
P_D == Str(<<"/", "d">>)
P_DB == Str(<<"/", "d", "b">>)
P_D_F == Str(<<"/", "d", "/", "f">>)
P_D_G == Str(<<"/", "d", "/", "g">>)
P_DB_F == Str(<<"/", "d", "b", "/", "f">>)

\* a line as read_line returns it: the words, single spaces, the terminator
HostLine(words) == JoinWith(words, SP) \o <<NL>>
\* what read_line returns at end of input
EofLine == <<>>
BlankLine == <<NL>>

L_VERSION_1 == HostLine(<<W_VERSION, Str(<<"1">>)>>)
L_VERSION_PCT == HostLine(<<W_VERSION, Str(<<"%", "3", "1">>)>>)
L_START_A_D == HostLine(<<W_START, ID_A, P_D>>)
L_START_A_DB == HostLine(<<W_START, ID_A, P_DB>>)
L_START_B_D == HostLine(<<W_START, ID_B, P_D>>)
L_START_B_DF == HostLine(<<W_START, ID_B, P_D_F>>)
L_DIR == HostLine(<<W_DIR>>)
L_LINK == HostLine(<<W_LINK>>)
L_DONE == HostLine(<<W_DONE>>)
L_WAIT_A == HostLine(<<W_WAIT, ID_A>>)
L_CHANGES_A == HostLine(<<W_CHANGES, ID_A>>)
L_RESET_A == HostLine(<<W_RESET, ID_A>>)
L_RESET_D == HostLine(<<W_RESET, P_D>>)
L_DEBUG == HostLine(<<W_DEBUG>>)

HostLines ==
  { L_VERSION_1, L_VERSION_PCT,
    HostLine(<<W_VERSION, Str(<<"2">>)>>), HostLine(<<W_VERSION>>),
    L_START_A_D, L_START_A_DB, L_START_B_D, L_START_B_DF, HostLine(<<W_START, ID_A>>),
    L_DIR, L_LINK, L_DONE,
    L_WAIT_A, L_CHANGES_A, HostLine(<<W_CHANGES>>), L_RESET_A, L_RESET_D,
    L_DEBUG, BlankLine, EofLine }

(***************************************************************************)
(* Raw events of the watch service (notify::DebouncedEvent).  Write stands *)
(* for the one-path variants NoticeWrite, NoticeRemove, Create, Write,     *)
(* Chmod and Remove, which handle_fsevent treats alike; Rescan for the     *)
(* variants it ignores.                                                    *)
(***************************************************************************)
Ev(kind, p1, p2) == [kind |-> kind, p1 |-> p1, p2 |-> p2]

RawEvents ==
  { Ev("Write", P_D_F, <<>>), Ev("Write", P_D, <<>>), Ev("Write", P_DB_F, <<>>),
    Ev("Rename", P_D_F, P_D_G), Ev("Error", P_D, <<>>), Ev("Rescan", <<>>, <<>>) }

\* lines 106-122: the paths an event contributes
EventPaths(event) ==
  IF event.kind = "Write" THEN <<event.p1>>
  ELSE IF event.kind = "Rename" THEN <<event.p1, event.p2>>
  ELSE <<>>

EmptyMap == [x \in {} |-> <<>>]

(***************************************************************************)
(* Change aggregation, handle_fsevent lines 103-135.                       *)
(***************************************************************************)
\* a variant that makes an entry for every replica before it tests the path
RecordPathAllKeys(file_path, reps, pend) ==
  LET hit == {r \in DOMAIN reps : starts_with(file_path, reps[r])} IN
  [err |-> FALSE,
   pend |-> [r \in DOMAIN pend \cup DOMAIN reps |->
              (IF r \in DOMAIN pend THEN pend[r] ELSE <<>>)
              \o (IF r \in hit THEN <<strip_prefix(file_path, reps[r]).rel>> ELSE <<>>)]]

\* a variant in which the first matching replica alone gets the path
RecordPathFirst(file_path, reps, pend) ==
  LET all == {r \in DOMAIN reps : starts_with(file_path, reps[r])}
      hit == IF all = {} THEN {} ELSE {CHOOSE r \in all : TRUE}
  IN [err |-> FALSE,
      pend |-> [r \in DOMAIN pend \cup hit |->
                 (IF r \in DOMAIN pend THEN pend[r] ELSE <<>>)
                 \o (IF r \in hit THEN <<strip_prefix(file_path, reps[r]).rel>> ELSE <<>>)]]

\* lines 125-133 for one path: every replica whose root the path starts with
\* gets the relative path appended; a failed strip_prefix is propagated
RecordPath(file_path, reps, pend) ==
  LET hit == {r \in DOMAIN reps : starts_with(file_path, reps[r])} IN
  IF \E r \in hit : ~strip_prefix(file_path, reps[r]).ok
  THEN [err |-> TRUE, pend |-> pend]
  ELSE [err |-> FALSE,
        pend |-> [r \in DOMAIN pend \cup hit |->
                   (IF r \in DOMAIN pend THEN pend[r] ELSE <<>>)
                   \o (IF r \in hit THEN <<strip_prefix(file_path, reps[r]).rel>> ELSE <<>>)]]

\* (r is bound once to the outcome for the first path)
RECURSIVE RecordPaths(_, _, _)
RecordPaths(paths, reps, pend) ==
  IF paths = <<>> THEN [err |-> FALSE, pend |-> pend]
  ELSE CHOOSE out \in {IF r.err THEN r ELSE RecordPaths(Tail(paths), reps, r.pend) :
                        r \in {RecordPath(Head(paths), reps, pend)}} : TRUE

\* the loop over rx.try_iter(): an Error event ends it with a failure
RECURSIVE DrainEvents(_, _, _)
DrainEvents(q, reps, pend) ==
  IF q = <<>> THEN [err |-> FALSE, pend |-> pend]
  ELSE IF Head(q).kind = "Error" THEN [err |-> TRUE, pend |-> pend]
  ELSE CHOOSE out \in {IF r.err THEN r ELSE DrainEvents(Tail(q), reps, r.pend) :
                        r \in {RecordPaths(EventPaths(Head(q)), reps, pend)}} : TRUE

\* the orders in which a HashMap may iterate over its keys
Orders(S) ==
  {o \in [1..Cardinality(S) -> S] : \A i, j \in 1..Cardinality(S) : o[i] = o[j] => i = j}

\* a variant that leaves out the last key
ChangesLinesButLast(order) ==
  [i \in 1..(Len(order) - 1) |-> send_cmd(W_CHANGES, <<order[i]>>)]

\* lines 137-139: one CHANGES line per key of the pending-change table
ChangesLines(order) == [i \in 1..Len(order) |-> send_cmd(W_CHANGES, <<order[i]>>)]

(***************************************************************************)
(* Dispatch helpers of main.                                               *)
(***************************************************************************)
\* a variant with the test inverted
ClearOnWait(cmd, pend) == IF cmd = W_WAIT THEN EmptyMap ELSE pend

\* lines 195-197
ClearUnlessWait(cmd, pend) == IF cmd # W_WAIT THEN EmptyMap ELSE pend

\* a variant that accepts every version value
AnyVersion(args) == TRUE

\* lines 161-164
VersionAccepted(args) == Len(args) >= 1 /\ args[1] = Str(<<"1">>)

\* lines 211-215: the drained sequence and the response lines
Drained(pend, replica) == IF replica \in DOMAIN pend THEN pend[replica] ELSE <<>>

ChangesResponse(pend, replica) ==
  [i \in 1..Len(Drained(pend, replica)) |-> send_cmd(W_RECURSIVE, <<Drained(pend, replica)[i]>>)]
  \o <<send_cmd(W_DONE, <<>>)>>

RemoveKey(f, k) == [x \in DOMAIN f \ {k} |-> f[x]]

\* error(&format!("Unexpected root cmd: {}", cmd)), line 221
RootCmdError(cmd) ==
  send_cmd(W_ERROR, <<JoinWith(<<W_Unexpected, W_root, W_cmdColon>>, SP) \o <<SP>> \o cmd>>)

\* error(&format!("Unexpected cmd: {}", cmd)), line 91
SubCmdError(cmd) ==
  send_cmd(W_ERROR, <<JoinWith(<<W_Unexpected, W_cmdColon>>, SP) \o <<SP>> \o cmd>>)

(***************************************************************************)
(* The watch service (notify::RecommendedWatcher) at its interface.        *)
(***************************************************************************)
\* the key of a watch: the path by components (a relative path is resolved
\* against the working directory, which no path of the model lies under)
WatchKey(path) == Components(path)

\* watcher.unwatch(path): a watched path is unwatched; for a path that is not
\* watched the outcome depends on the platform's watcher (WatchNotFound from
\* the inotify, FSEvents and polling watchers, success from the Windows and
\* null watchers)
UnwatchOutcomes(path, ws) == IF WatchKey(path) \in ws THEN {TRUE} ELSE {TRUE, FALSE}

(***************************************************************************)
(* State.  The reader thread (lines 150-154) only forwards what read_line  *)
(* returns, through an unbounded channel: a line is an input of the        *)
(* receive that takes it.  A receive fails, or finds the channel           *)
(* disconnected, once a failed read has ended the reader thread.           *)
(***************************************************************************)
VARIABLES
  pc,               \* where the main thread is
  output,           \* the lines written to stdout
  nread,            \* lines the main thread has received
  input,            \* the line the main thread received last
  fsq,              \* fsevent_rx: raw events not yet drained
  nev,              \* events the watch service has produced
  watches,          \* the active watches of the watch service
  replicas,         \* id => path
  pending_changes,  \* id => changed paths
  sub,              \* replica and path of the START being processed
  exit_code         \* the process exit status, -1 while it runs

vars == <<pc, output, nread, input, fsq, nev, watches, replicas, pending_changes,
          sub, exit_code>>

NoSub == [replica |-> <<>>, path |-> <<>>]
Running == -1
ExitOk == 0        \* main returns Ok(())
ExitFailure == 1   \* exit(1), and main returning an Err
ExitPanic == 101   \* a panic of the main thread

Init ==
  /\ pc = "start"
  /\ output = <<>>
  /\ nread = 0
  /\ input = <<>>
  /\ fsq = <<>>
  /\ nev = 0
  /\ watches = {}
  /\ replicas = EmptyMap
  /\ pending_changes = EmptyMap
  /\ sub = NoSub
  /\ exit_code = Running

Exit(code) == pc' = "exited" /\ exit_code' = code

\* the main thread receives the line
TakeLine(line) == nread < MaxLines /\ nread' = nread + 1 /\ input' = line

\* let (cmd, args) = parse_input(&input)?
Cmd(line) == parse_input(line).cmd
Args(line) == parse_input(line).args

(***************************************************************************)
(* The watch service.                                                      *)
(***************************************************************************)
\* the watch service, once created (line 174), sends an event through
\* fsevent_tx; main takes whatever arrives, whether or not a path of the
\* event lies under a watch that is active at that moment
FsEmit(event) ==
  /\ pc \in {"loop", "recv", "add_to_watcher"}
  /\ nev < MaxEvents
  /\ fsq' = Append(fsq, event)
  /\ nev' = nev + 1
  /\ UNCHANGED <<pc, output, nread, input, watches, replicas, pending_changes, sub,
                 exit_code>>

(***************************************************************************)
(* main, lines 147-164: the handshake.                                     *)
(***************************************************************************)
SendVersion ==
  /\ pc = "start"
  /\ output' = Append(output, send_cmd(W_VERSION, <<Str(<<"1">>)>>))
  /\ pc' = "handshake"
  /\ UNCHANGED <<nread, input, fsq, nev, watches, replicas, pending_changes, sub,
                 exit_code>>

HandshakeOk(line) ==
  /\ pc = "handshake"
  /\ TakeLine(line)
  /\ Cmd(line) = W_VERSION /\ VersionAccepted(Args(line))
  /\ pc' = "loop"
  /\ UNCHANGED <<output, fsq, nev, watches, replicas, pending_changes, sub, exit_code>>

\* bail!: the error goes to stderr as main's Err, nothing is written to stdout
HandshakeFail(line) ==
  /\ pc = "handshake"
  /\ TakeLine(line)
  /\ ~(Cmd(line) = W_VERSION /\ VersionAccepted(Args(line)))
  /\ Exit(ExitFailure)
  /\ UNCHANGED <<output, fsq, nev, watches, replicas, pending_changes, sub>>

\* line 174: Watcher::new fails after the accepted line, the error is
\* returned through ? from main
HandshakeWatcherFails(line) ==
  /\ pc = "handshake"
  /\ TakeLine(line)
  /\ Cmd(line) = W_VERSION /\ VersionAccepted(Args(line))
  /\ Exit(ExitFailure)
  /\ UNCHANGED <<output, fsq, nev, watches, replicas, pending_changes, sub>>

\* line 156: recv() fails, returned through ? from main
HandshakeRecvError ==
  /\ pc = "handshake"
  /\ Exit(ExitFailure)
  /\ UNCHANGED <<output, nread, input, fsq, nev, watches, replicas, pending_changes, sub>>

(***************************************************************************)
(* handle_fsevent, lines 98-142, called at the top of every iteration.     *)
(***************************************************************************)
HandleFsevent ==
  /\ pc = "loop"
  /\ ~DrainEvents(fsq, replicas, pending_changes).err
  /\ fsq' = <<>>
  /\ pending_changes' = DrainEvents(fsq, replicas, pending_changes).pend
  /\ \E order \in Orders(DOMAIN pending_changes') :
       output' = output \o ChangesLines(order)
  /\ pc' = "recv"
  /\ UNCHANGED <<nread, input, nev, watches, replicas, sub, exit_code>>

\* an Error event (or a failed strip_prefix) is returned through ? from main
HandleFseventError ==
  /\ pc = "loop"
  /\ DrainEvents(fsq, replicas, pending_changes).err
  /\ Exit(ExitFailure)
  /\ UNCHANGED <<output, nread, input, fsq, nev, watches, replicas, pending_changes, sub>>

(***************************************************************************)
(* main, lines 179-222: one received line.                                 *)
(***************************************************************************)
\* a variant without the timeout: the receive waits for a line
RecvTimeoutBlocks ==
  /\ pc = "recv"
  /\ Len(output) < MaxOut
  /\ UNCHANGED vars

\* recv_timeout(Duration::from_secs(1)) returns Timeout: continue
RecvTimeout ==
  /\ pc = "recv"
  /\ Len(output) < MaxOut
  /\ pc' = "loop"
  /\ UNCHANGED <<output, nread, input, fsq, nev, watches, replicas, pending_changes,
                 sub, exit_code>>

RecvDisconnected ==
  /\ pc = "recv"
  /\ Exit(ExitOk)
  /\ UNCHANGED <<output, nread, input, fsq, nev, watches, replicas, pending_changes, sub>>

\* input.is_empty(): the zero-length string read_line returns at end of input
RecvEmpty(line) ==
  /\ pc = "recv"
  /\ TakeLine(line)
  /\ line = <<>>
  /\ Exit(ExitOk)
  /\ UNCHANGED <<output, fsq, nev, watches, replicas, pending_changes, sub>>

Dispatch(line) == pc = "recv" /\ TakeLine(line) /\ line # <<>>

CmdDebug(line) ==
  /\ Dispatch(line)
  /\ Cmd(line) = W_DEBUG
  /\ pending_changes' = ClearUnlessWait(Cmd(line), pending_changes)
  /\ pc' = "loop"
  /\ UNCHANGED <<output, fsq, nev, watches, replicas, sub, exit_code>>

\* a variant that acknowledges WAIT
CmdWaitAcks(line) ==
  /\ Dispatch(line)
  /\ Cmd(line) = W_WAIT
  /\ pending_changes' = ClearUnlessWait(Cmd(line), pending_changes)
  /\ output' = Append(output, send_cmd(W_OK, <<>>))
  /\ pc' = "loop"
  /\ UNCHANGED <<fsq, nev, watches, replicas, sub, exit_code>>

CmdWait(line) ==
  /\ Dispatch(line)
  /\ Cmd(line) = W_WAIT
  /\ pending_changes' = ClearUnlessWait(Cmd(line), pending_changes)
  /\ pc' = "loop"
  /\ UNCHANGED <<output, fsq, nev, watches, replicas, sub, exit_code>>

\* args.remove(0) on an argument list that is too short panics
MissingArgs(line) ==
  \/ Cmd(line) = W_START /\ Len(Args(line)) < 2
  \/ Cmd(line) \in {W_CHANGES, W_RESET} /\ Len(Args(line)) < 1

CmdPanic(line) ==
  /\ Dispatch(line)
  /\ MissingArgs(line)
  /\ pending_changes' = ClearUnlessWait(Cmd(line), pending_changes)
  /\ Exit(ExitPanic)
  /\ UNCHANGED <<output, fsq, nev, watches, replicas, sub>>

\* lines 202-204 and 81-82: the watch is registered and acknowledged
CmdStart(line) ==
  /\ Dispatch(line)
  /\ Cmd(line) = W_START /\ ~MissingArgs(line)
  /\ pending_changes' = ClearUnlessWait(Cmd(line), pending_changes)
  /\ watches' = watches \cup {WatchKey(Args(line)[2])}
  /\ output' = Append(output, send_cmd(W_OK, <<>>))
  /\ sub' = [replica |-> Args(line)[1], path |-> Args(line)[2]]
  /\ pc' = "add_to_watcher"
  /\ UNCHANGED <<fsq, nev, replicas, exit_code>>

\* line 81: watcher.watch fails, the error is returned through ? from main
CmdStartWatchFails(line) ==
  /\ Dispatch(line)
  /\ Cmd(line) = W_START /\ ~MissingArgs(line)
  /\ pending_changes' = ClearUnlessWait(Cmd(line), pending_changes)
  /\ Exit(ExitFailure)
  /\ UNCHANGED <<output, fsq, nev, watches, replicas, sub>>

\* a variant that answers from the table as it was and keeps the entry
CmdChangesKeeps(line) ==
  /\ Dispatch(line)
  /\ Cmd(line) = W_CHANGES /\ ~MissingArgs(line)
  /\ output' = output \o ChangesResponse(pending_changes, Args(line)[1])
  /\ pc' = "loop"
  /\ UNCHANGED <<fsq, nev, watches, replicas, pending_changes, sub, exit_code>>

CmdChanges(line) ==
  /\ Dispatch(line)
  /\ Cmd(line) = W_CHANGES /\ ~MissingArgs(line)
  /\ LET cleared == ClearUnlessWait(Cmd(line), pending_changes) IN
       /\ output' = output \o ChangesResponse(cleared, Args(line)[1])
       /\ pending_changes' = RemoveKey(cleared, Args(line)[1])
  /\ pc' = "loop"
  /\ UNCHANGED <<fsq, nev, watches, replicas, sub, exit_code>>

\* line 219: the argument of unwatch is the replica id
CmdReset(line) ==
  /\ Dispatch(line)
  /\ Cmd(line) = W_RESET /\ ~MissingArgs(line)
  /\ TRUE \in UnwatchOutcomes(Args(line)[1], watches)
  /\ pending_changes' = ClearUnlessWait(Cmd(line), pending_changes)
  /\ watches' = watches \ {WatchKey(Args(line)[1])}
  /\ pc' = "loop"
  /\ UNCHANGED <<output, fsq, nev, replicas, sub, exit_code>>

CmdResetUnwatchFails(line) ==
  /\ Dispatch(line)
  /\ Cmd(line) = W_RESET /\ ~MissingArgs(line)
  /\ FALSE \in UnwatchOutcomes(Args(line)[1], watches)
  /\ pending_changes' = ClearUnlessWait(Cmd(line), pending_changes)
  /\ Exit(ExitFailure)
  /\ UNCHANGED <<output, fsq, nev, watches, replicas, sub>>

RootCommands == {W_DEBUG, W_START, W_WAIT, W_CHANGES, W_RESET}

CmdUnknown(line) ==
  /\ Dispatch(line)
  /\ Cmd(line) \notin RootCommands
  /\ pending_changes' = ClearUnlessWait(Cmd(line), pending_changes)
  /\ output' = Append(output, RootCmdError(Cmd(line)))
  /\ Exit(ExitFailure)
  /\ UNCHANGED <<fsq, nev, watches, replicas, sub>>

(***************************************************************************)
(* add_to_watcher, lines 84-95, and the insertion of line 205.             *)
(***************************************************************************)
SubLine(line) == pc = "add_to_watcher" /\ TakeLine(line)

SubDir(line) ==
  /\ SubLine(line)
  /\ Cmd(line) = W_DIR
  /\ output' = Append(output, send_cmd(W_OK, <<>>))
  /\ UNCHANGED <<pc, fsq, nev, watches, replicas, pending_changes, sub, exit_code>>

\* a variant that ends the sub-protocol on LINK as it does on DONE
SubLinkBreaks(line) ==
  /\ SubLine(line)
  /\ Cmd(line) = W_LINK
  /\ replicas' = [r \in DOMAIN replicas \cup {sub.replica} |->
                    IF r = sub.replica THEN sub.path ELSE replicas[r]]
  /\ sub' = NoSub
  /\ pc' = "loop"
  /\ UNCHANGED <<output, fsq, nev, watches, pending_changes, exit_code>>

\* bail!: returned through ? from main
SubLink(line) ==
  /\ SubLine(line)
  /\ Cmd(line) = W_LINK
  /\ Exit(ExitFailure)
  /\ UNCHANGED <<output, fsq, nev, watches, replicas, pending_changes, sub>>

\* a variant that acknowledges the closing DONE
SubDoneAcks(line) ==
  /\ SubLine(line)
  /\ Cmd(line) = W_DONE
  /\ output' = Append(output, send_cmd(W_OK, <<>>))
  /\ replicas' = [r \in DOMAIN replicas \cup {sub.replica} |->
                    IF r = sub.replica THEN sub.path ELSE replicas[r]]
  /\ sub' = NoSub
  /\ pc' = "loop"
  /\ UNCHANGED <<fsq, nev, watches, pending_changes, exit_code>>

SubDone(line) ==
  /\ SubLine(line)
  /\ Cmd(line) = W_DONE
  /\ replicas' = [r \in DOMAIN replicas \cup {sub.replica} |->
                    IF r = sub.replica THEN sub.path ELSE replicas[r]]
  /\ sub' = NoSub
  /\ pc' = "loop"
  /\ UNCHANGED <<output, fsq, nev, watches, pending_changes, exit_code>>

SubUnexpected(line) ==
  /\ SubLine(line)
  /\ Cmd(line) \notin {W_DIR, W_LINK, W_DONE}
  /\ output' = Append(output, SubCmdError(Cmd(line)))
  /\ Exit(ExitFailure)
  /\ UNCHANGED <<fsq, nev, watches, replicas, pending_changes, sub>>

\* line 85: recv() fails, returned through ? from main
SubRecvError ==
  /\ pc = "add_to_watcher"
  /\ Exit(ExitFailure)
  /\ UNCHANGED <<output, nread, input, fsq, nev, watches, replicas, pending_changes, sub>>

Next ==
  \/ \E event \in RawEvents : FsEmit(event)
  \/ SendVersion
  \/ \E line \in HostLines : HandshakeOk(line)
  \/ \E line \in HostLines : HandshakeFail(line)
  \/ \E line \in HostLines : HandshakeWatcherFails(line)
  \/ HandshakeRecvError
  \/ HandleFsevent
  \/ HandleFseventError
  \/ RecvTimeout
  \/ RecvDisconnected
  \/ \E line \in HostLines : RecvEmpty(line)
  \/ \E line \in HostLines : CmdDebug(line)
  \/ \E line \in HostLines : CmdWait(line)
  \/ \E line \in HostLines : CmdPanic(line)
  \/ \E line \in HostLines : CmdStart(line)
  \/ \E line \in HostLines : CmdStartWatchFails(line)
  \/ \E line \in HostLines : CmdChanges(line)
  \/ \E line \in HostLines : CmdReset(line)
  \/ \E line \in HostLines : CmdResetUnwatchFails(line)
  \/ \E line \in HostLines : CmdUnknown(line)
  \/ \E line \in HostLines : SubDir(line)
  \/ \E line \in HostLines : SubLink(line)
  \/ \E line \in HostLines : SubDone(line)
  \/ \E line \in HostLines : SubUnexpected(line)
  \/ SubRecvError

Spec == Init /\ [][Next]_vars

\* The main thread is never blocked at the top of the loop, where
\* handle_fsevent only polls (try_iter), and recv_timeout returns after one
\* second at the latest: these steps happen when they stay possible.  The
\* host and the watch service are under no obligation.
FairSpec ==
  /\ Init /\ [][Next]_vars
  /\ WF_vars(HandleFsevent)
  /\ WF_vars(HandleFseventError)
  /\ WF_vars(RecvTimeout)

(***************************************************************************)
(* The codec on its own: encode and decode, and send_cmd and parse_input,  *)
(* applied to an argument string.  input holds the argument, output what   *)
(* the functions return: the encoded and the decoded string, or the line   *)
(* written and then the command name and the arguments parsed from it.     *)
(***************************************************************************)
\* a letter, the tab, the space, the percent sign, two hexadecimal digits
\* and a character of two bytes
CodecAlphabet == {Ord("x"), TAB, SP, PCT, Ord("4"), Ord("1"), E_ACUTE}

Strings(n) == UNION {[1..k -> CodecAlphabet] : k \in 0..n}

CodecInit ==
  /\ pc = "codec"
  /\ input \in Strings(MaxLen)
  /\ output = <<>>
  /\ nread = 0
  /\ fsq = <<>>
  /\ nev = 0
  /\ watches = {}
  /\ replicas = EmptyMap
  /\ pending_changes = EmptyMap
  /\ sub = NoSub
  /\ exit_code = Running

CodecFrame == UNCHANGED <<nread, input, fsq, nev, watches, replicas, pending_changes,
                          sub, exit_code>>

CodecEncode ==
  /\ pc = "codec"
  /\ output' = <<encode(input)>>
  /\ pc' = "encoded"
  /\ CodecFrame

CodecDecode ==
  /\ pc = "encoded"
  /\ output' = Append(output, decode(output[1]))
  /\ pc' = "decoded"
  /\ CodecFrame

\* recursive(path): send_cmd("RECURSIVE", &[path])
CodecSend ==
  /\ pc = "codec"
  /\ output' = <<send_cmd(W_RECURSIVE, <<input>>)>>
  /\ pc' = "sent"
  /\ CodecFrame

\* parse_input on the line println! wrote
CodecParse ==
  /\ pc = "sent"
  /\ LET parsed == parse_input(output[1] \o <<NL>>) IN
       output' = output \o <<parsed.cmd>> \o parsed.args
  /\ pc' = "parsed"
  /\ CodecFrame

CodecNext == CodecEncode \/ CodecDecode \/ CodecSend \/ CodecParse

CodecSpec == CodecInit /\ [][CodecNext]_vars

(***************************************************************************)
(* Properties.                                                             *)
(***************************************************************************)
VersionLine == send_cmd(W_VERSION, <<Str(<<"1">>)>>)
OkLine == send_cmd(W_OK, <<>>)
DoneLine == send_cmd(W_DONE, <<>>)
PushLine(replica) == send_cmd(W_CHANGES, <<replica>>)
RecursiveLine(path) == send_cmd(W_RECURSIVE, <<path>>)
IsErrorLine(line) == IsPrefix(W_ERROR, line)

\* this step is the main thread receiving a line, input'
MainTakes == nread' = nread + 1
\* ... in the Ready loop, the line being a command line
ReadyTakes == pc = "recv" /\ MainTakes /\ input' # EofLine
\* ... in the START sub-protocol
SubTakes == pc = "add_to_watcher" /\ MainTakes
\* the command name and the arguments of the line received
RCmd == Cmd(input')
RArgs == Args(input')

\* C1: a CHANGES command for a registered replica is answered with one
\* RECURSIVE line per path recorded for it, in recording order, then DONE.
C1_ChangesRepliesRecorded ==
  [][(ReadyTakes /\ RCmd = W_CHANGES /\ Len(RArgs) >= 1 /\ RArgs[1] \in DOMAIN replicas)
       => output' = output
            \o [i \in 1..Len(Drained(pending_changes, RArgs[1])) |->
                  RecursiveLine(Drained(pending_changes, RArgs[1])[i])]
            \o <<DoneLine>>]_vars

\* C2: in Ready every command line other than WAIT leaves the pending-change
\* table empty, and empties it before the command acts (a CHANGES command
\* finds nothing to report); a WAIT line leaves the table as it was.
C2_ClearedUnlessWait ==
  [][ReadyTakes =>
       /\ RCmd # W_WAIT => pending_changes' = EmptyMap
       /\ RCmd = W_WAIT => pending_changes' = pending_changes
       /\ (RCmd = W_CHANGES /\ Len(RArgs) >= 1) => output' = Append(output, DoneLine)]_vars

C2_Witness ==
  /\ pc = "loop"
  /\ input = L_DEBUG
  /\ pending_changes = EmptyMap
  /\ output[Len(output)] = PushLine(ID_A)

\* C3: VERSION 1 is the first line written and is written before anything is
\* read; the handshake leads to Ready only on VERSION with first argument 1
\* (and then only if the watch service could be created); in every other
\* case it ends the process with a failure status, with nothing but
\* VERSION 1 written, no watch and no replica; an exited process does nothing.
C3_Step ==
  /\ pc = "start" => (output' = <<VersionLine>> /\ UNCHANGED <<input, nread>>)
  /\ (pc = "handshake" /\ pc' # "handshake") =>
       IF MainTakes /\ RCmd = W_VERSION /\ Len(RArgs) >= 1 /\ RArgs[1] = Str(<<"1">>)
       THEN \/ pc' = "loop" /\ exit_code' = Running
            \/ /\ pc' = "exited" /\ exit_code' # ExitOk
               /\ output' = <<VersionLine>>
               /\ watches' = {} /\ replicas' = EmptyMap
       ELSE /\ pc' = "exited" /\ exit_code' # ExitOk
            /\ output' = <<VersionLine>>
            /\ watches' = {} /\ replicas' = EmptyMap
  /\ pc = "exited" => UNCHANGED vars

C3_Handshake ==
  /\ [](/\ pc = "start" => (output = <<>> /\ input = <<>> /\ nread = 0)
        /\ pc # "start" => (output # <<>> /\ output[1] = VersionLine)
        /\ pc = "handshake" => (output = <<VersionLine>> /\ watches = {}
                                 /\ replicas = EmptyMap))
  /\ [][C3_Step]_vars

C3_Witness ==
  /\ pc = "exited"
  /\ exit_code = ExitFailure
  /\ input = HostLine(<<W_VERSION, Str(<<"2">>)>>)
  /\ output = <<VersionLine>>

\* C4: when the process has ended with a failure status, the last line it
\* wrote is an ERROR line.
C4_FatalHasErrorLine ==
  (pc = "exited" /\ exit_code = ExitFailure) => IsErrorLine(output[Len(output)])

\* C5: RESET R for a registered replica R leaves no watch on R's root path
\* and no entry for R in the replica registry.
C5_ResetUnwatchesRoot ==
  [][(ReadyTakes /\ RCmd = W_RESET /\ Len(RArgs) >= 1 /\ RArgs[1] \in DOMAIN replicas)
       => /\ WatchKey(replicas[RArgs[1]]) \notin watches'
          /\ RArgs[1] \notin DOMAIN replicas']_vars

\* C6: RESET a, for a replica a whose root path is not the string a, does not
\* end the session.
C6_ResetKeepsSession ==
  [][(ReadyTakes /\ RCmd = W_RESET /\ Len(RArgs) >= 1 /\ RArgs[1] \in DOMAIN replicas
        /\ replicas[RArgs[1]] # RArgs[1])
       => pc' # "exited"]_vars

\* C7: the replica registry changes only when DONE ends the sub-protocol of a
\* START whose watch is registered, and then binds that START's id to its
\* path; a sub-protocol ended by anything else, and a START whose watch
\* registration fails, end the process with the registry as it was.
C7_Step ==
  /\ replicas' # replicas =>
       /\ SubTakes /\ RCmd = W_DONE
       /\ WatchKey(sub.path) \in watches
       /\ DOMAIN replicas' = DOMAIN replicas \cup {sub.replica}
       /\ replicas'[sub.replica] = sub.path
       /\ \A r \in DOMAIN replicas \ {sub.replica} : replicas'[r] = replicas[r]
  /\ (ReadyTakes /\ pc' = "add_to_watcher") =>
       /\ RCmd = W_START
       /\ sub' = [replica |-> RArgs[1], path |-> RArgs[2]]
       /\ WatchKey(RArgs[2]) \in watches'
  /\ (ReadyTakes /\ RCmd = W_START /\ pc' # "add_to_watcher") =>
       (pc' = "exited" /\ exit_code' # ExitOk)
  /\ (SubTakes /\ RCmd \notin {W_DIR, W_DONE}) =>
       (pc' = "exited" /\ exit_code' # ExitOk)
  /\ (pc = "add_to_watcher" /\ pc' # "add_to_watcher" /\ ~(SubTakes /\ RCmd = W_DONE)) =>
       (pc' = "exited" /\ exit_code' # ExitOk)

C7_RegisteredOnlyByDone == [][C7_Step]_vars

C7_Witness ==
  /\ pc = "loop"
  /\ input = L_DONE
  /\ replicas = (ID_A :> P_D)
  /\ WatchKey(P_D) \in watches

\* C8: a START whose watch is registered writes exactly one OK, every DIR of
\* its sub-protocol writes exactly one OK, and the closing DONE writes
\* nothing and leaves the process in Ready with the id bound to the path.
C8_Step ==
  /\ (ReadyTakes /\ pc' = "add_to_watcher") => output' = Append(output, OkLine)
  /\ (SubTakes /\ RCmd = W_DIR) =>
       (output' = Append(output, OkLine) /\ pc' = "add_to_watcher" /\ sub' = sub)
  /\ (SubTakes /\ RCmd = W_DONE) =>
       /\ output' = output
       /\ pc' = "loop"
       /\ sub.replica \in DOMAIN replicas' /\ replicas'[sub.replica] = sub.path

C8_StartAcknowledged == [][C8_Step]_vars

\* VERSION 1, START a /d, DIR, DONE: outputs VERSION 1, OK, OK and a -> /d
C8_Witness ==
  /\ pc = "loop"
  /\ nread = 4
  /\ input = L_DONE
  /\ output = <<VersionLine, OkLine, OkLine>>
  /\ replicas = (ID_A :> P_D)

\* C9: the exit status is 0 exactly when the session ends in Ready by a
\* closed input stream or by an empty input line (a line that holds nothing
\* but its terminator, or the zero-length read at end of input); every other
\* way of ending gives a non-zero status.
C9_ExitZeroOnEmptyLine ==
  [][(pc # "exited" /\ pc' = "exited") =>
       (exit_code' = ExitOk <=>
          /\ pc = "recv"
          /\ \/ ~MainTakes
             \/ input' \in {EofLine, BlankLine})]_vars

\* C10: draining the buffered events appends to each replica's pending
\* sequence exactly the paths that are its root or lie under it at a
\* separator, relative to the root, in event order; a path that only shares
\* a string prefix with the root is not recorded, and nothing but an Error
\* event makes the drain fail.
UnderRoot(root, path) == path = root \/ IsPrefix(root \o <<SLASH>>, path)
RelativeTo(root, path) ==
  IF path = root THEN <<>> ELSE SubSeq(path, Len(root) + 2, Len(path))

RECURSIVE ExpectedUnder(_, _)
ExpectedUnder(root, paths) ==
  IF paths = <<>> THEN <<>>
  ELSE (IF UnderRoot(root, Head(paths)) THEN <<RelativeTo(root, Head(paths))>> ELSE <<>>)
       \o ExpectedUnder(root, Tail(paths))

RECURSIVE Concat(_)
Concat(ss) == IF ss = <<>> THEN <<>> ELSE Head(ss) \o Concat(Tail(ss))
QueuedPaths(q) == Concat([i \in 1..Len(q) |-> EventPaths(q[i])])

C10_Step ==
  /\ (pc = "loop" /\ pc' = "recv") =>
       /\ \A r \in DOMAIN replicas :
            Drained(pending_changes', r)
              = Drained(pending_changes, r) \o ExpectedUnder(replicas[r], QueuedPaths(fsq))
       /\ \A r \in DOMAIN pending_changes' \ DOMAIN replicas :
            r \in DOMAIN pending_changes /\ pending_changes'[r] = pending_changes[r]
  /\ (pc = "loop" /\ pc' = "exited") => \E i \in 1..Len(fsq) : fsq[i].kind = "Error"

C10_ComponentPrefixMatch == [][C10_Step]_vars

\* root /d is registered, /db/f has been drained and is recorded for /db only
C10_Witness ==
  /\ pc = "recv"
  /\ replicas = (ID_A :> P_DB) @@ (ID_B :> P_D)
  /\ pending_changes = (ID_A :> << Str(<<"f">>) >>)
  /\ fsq = <<>>

\* C11: an iteration of the Ready loop, once the buffered events are drained,
\* writes one CHANGES line for each replica that has pending changes, in some
\* order, and nothing else; a timeout and a WAIT command leave the table as
\* it is, so the next iteration notifies the same replicas again.
C11_Step ==
  /\ (pc = "loop" /\ pc' = "recv") =>
       \E order \in Orders({r \in DOMAIN replicas : Drained(pending_changes', r) # <<>>}) :
         output' = output \o [i \in 1..Len(order) |-> PushLine(order[i])]
  /\ (pc = "recv" /\ pc' = "loop" /\ (~MainTakes \/ RCmd = W_WAIT)) =>
       (pending_changes' = pending_changes /\ output' = output)

C11_PushPerPendingReplica == [][C11_Step]_vars

\* a is notified, the wait times out, a is notified again
C11_Witness ==
  /\ pc = "recv"
  /\ input = L_DONE
  /\ pending_changes = (ID_A :> << Str(<<"f">>) >>)
  /\ output = <<VersionLine, OkLine, PushLine(ID_A), PushLine(ID_A)>>

\* C12: a WAIT command in Ready changes neither the replica registry, nor the
\* pending-change table, nor the active watches, writes nothing and returns
\* to the top of the loop.
C12_WaitChangesNothing ==
  [][(ReadyTakes /\ RCmd = W_WAIT) =>
       /\ UNCHANGED <<replicas, pending_changes, watches, output, fsq, sub, exit_code>>
       /\ pc' = "loop"]_vars

\* WAIT a was received while a change of a was pending
C12_Witness ==
  /\ pc = "loop"
  /\ input = L_WAIT_A
  /\ pending_changes = (ID_A :> << Str(<<"f">>) >>)
  /\ WatchKey(P_D) \in watches

\* C13: RECURSIVE lines are written only in answer to a CHANGES command, one
\* for one recorded entry of the replica asked for, at most; once the command
\* is answered the replica has no entry in the table, and a CHANGES command
\* for a replica without an entry is answered by DONE alone.
IsRecursiveLine(line) == IsPrefix(W_RECURSIVE, line)
Written == SubSeq(output', Len(output) + 1, Len(output'))
RecursiveWritten == SelectSeq(Written, IsRecursiveLine)

C13_Step ==
  /\ IsPrefix(output, output')
  /\ RecursiveWritten # <<>> =>
       /\ ReadyTakes /\ RCmd = W_CHANGES /\ Len(RArgs) >= 1
       /\ Len(RecursiveWritten) <= Len(Drained(pending_changes, RArgs[1]))
       /\ \A i \in 1..Len(RecursiveWritten) :
            RecursiveWritten[i] = RecursiveLine(Drained(pending_changes, RArgs[1])[i])
  /\ (ReadyTakes /\ RCmd = W_CHANGES /\ Len(RArgs) >= 1) =>
       /\ RArgs[1] \notin DOMAIN pending_changes'
       /\ Written[Len(Written)] = DoneLine
       /\ RArgs[1] \notin DOMAIN pending_changes => Written = <<DoneLine>>

C13_AtMostOnce == [][C13_Step]_vars

\* a change of a was pushed, then CHANGES a was answered twice in a row
C13_Witness ==
  /\ pc = "loop"
  /\ input = L_CHANGES_A
  /\ output = <<VersionLine, OkLine, PushLine(ID_A), DoneLine, DoneLine>>
  /\ ID_A \notin DOMAIN pending_changes

\* C14: a command written by send_cmd with an argument that contains a space
\* is parsed back by parse_input as the same command name and the same
\* single argument.
C14_SpaceArgOneToken ==
  (pc = "parsed" /\ \E i \in 1..Len(input) : input[i] = SP) =>
    (Len(output) = 3 /\ output[2] = W_RECURSIVE /\ output[3] = input)

\* C15: decode(encode(s)) = s for every string s over the alphabet.
C15_RoundTrip == pc = "decoded" => output[2] = input

\* C16: draining gives a queued path to every replica whose root is the path
\* or lies above it, whatever the other replicas' roots are: each such
\* replica's sequence grows by one entry per matching path, the path
\* relative to that replica's root; a rename gives its old and its new path,
\* in this order, to every replica whose root holds both.
Appended(r) ==
  SubSeq(Drained(pending_changes', r), Len(Drained(pending_changes, r)) + 1,
         Len(Drained(pending_changes', r)))

Matching(root, paths) == {i \in 1..Len(paths) : UnderRoot(root, paths[i])}

C16_Step ==
  (pc = "loop" /\ pc' = "recv") =>
    \A r \in DOMAIN replicas :
      /\ Len(Appended(r)) = Cardinality(Matching(replicas[r], QueuedPaths(fsq)))
      /\ \A i \in Matching(replicas[r], QueuedPaths(fsq)) :
           \E k \in 1..Len(Appended(r)) :
             Appended(r)[k] = RelativeTo(replicas[r], QueuedPaths(fsq)[i])
      /\ \A i \in 1..Len(fsq) :
           (fsq[i].kind = "Rename" /\ UnderRoot(replicas[r], fsq[i].p1)
              /\ UnderRoot(replicas[r], fsq[i].p2)) =>
             \E k \in 1..(Len(Appended(r)) - 1) :
               /\ Appended(r)[k] = RelativeTo(replicas[r], fsq[i].p1)
               /\ Appended(r)[k + 1] = RelativeTo(replicas[r], fsq[i].p2)

C16_EveryMatchingReplica == [][C16_Step]_vars

\* roots /d and /d/f, the rename of /d/f to /d/g drained: a has both paths,
\* b the old one, which is its root
C16_Witness ==
  /\ pc = "recv"
  /\ replicas = (ID_A :> P_D) @@ (ID_B :> P_D_F)
  /\ pending_changes = (ID_A :> << Str(<<"f">>), Str(<<"g">>) >>) @@ (ID_B :> << <<>> >>)
  /\ fsq = <<>>

\* C17: no key of the pending-change table is mapped to the empty sequence.
\* A key appears only when a drain records a path under the replica's root,
\* and it appears whenever one does; it disappears only when a command other
\* than WAIT is received in Ready.
C17_Step ==
  /\ \A r \in DOMAIN pending_changes' \ DOMAIN pending_changes :
       /\ pc = "loop" /\ pc' = "recv"
       /\ r \in DOMAIN replicas
       /\ Matching(replicas[r], QueuedPaths(fsq)) # {}
  /\ (pc = "loop" /\ pc' = "recv") =>
       \A r \in DOMAIN replicas :
         Matching(replicas[r], QueuedPaths(fsq)) # {} => r \in DOMAIN pending_changes'
  /\ \A r \in DOMAIN pending_changes \ DOMAIN pending_changes' :
       ReadyTakes /\ RCmd # W_WAIT

C17_NoEmptyEntry ==
  /\ [](\A r \in DOMAIN pending_changes : pending_changes[r] # <<>>)
  /\ [][C17_Step]_vars

\* roots /d and /d/f, a write of /d drained: a has an entry, b has none
C17_Witness ==
  /\ pc = "recv"
  /\ replicas = (ID_A :> P_D) @@ (ID_B :> P_D_F)
  /\ DOMAIN pending_changes = {ID_A}
  /\ pending_changes[ID_A] = << <<>> >>
  /\ fsq = <<>>

\* C18: an event buffered while the session is in Ready is eventually drained
\* (or the session ends, or a START sub-protocol begins), whether or not the
\* host sends another line: the wait for input times out and the loop
\* drains.  The model takes a timeout only below MaxOut output lines.
C18_EventsDrained ==
  (pc \in {"loop", "recv"} /\ fsq # <<>> /\ Len(output) < MaxOut)
    ~> (fsq = <<>> \/ pc \in {"exited", "add_to_watcher"})

\* an event is buffered while the loop waits for the line after DONE
C18_Witness ==
  /\ pc = "recv"
  /\ input = L_DONE
  /\ replicas = (ID_A :> P_D)
  /\ fsq = <<Ev("Write", P_D_F, <<>>)>>
  /\ output = <<VersionLine, OkLine>>

\* C19: the end of input (the zero-length line) is not dispatched as a
\* command by any caller: no line about an unexpected command is written for
\* it, in the handshake, in Ready or in the START sub-protocol, and in Ready
\* it ends the session with status 0.
C19_EndOfInputNotDispatched ==
  [][(MainTakes /\ input' = EofLine) =>
       /\ output' = output
       /\ pc = "recv" => (pc' = "exited" /\ exit_code' = ExitOk)]_vars

\* C20: in Ready the root path of every registered replica is watched.
C20_RootsWatched ==
  pc \in {"loop", "recv"} => \A r \in DOMAIN replicas : WatchKey(replicas[r]) \in watches

====
